---- MODULE Spec2Model ----
(***************************************************************************)
(* A model of the trulens_eval span taxonomy (trace/span.py) and of the    *)
(* NeMo Guardrails feedback action (tru_rails.py).                         *)
(*                                                                         *)
(* Python values are tagged records [k |-> kind, v |-> payload] so that    *)
(* values of different Python types can be compared.                       *)
(***************************************************************************)
EXTENDS Integers, Sequences, FiniteSets, TLC

\* ------------------------------------------------------------------ bounds

\* Number of spans (and so of span contexts) of the trace.
NumSpans == 2

\* Number of operations performed on the trace in one behaviour.
MaxOps == 3

\* Number of steps of the Lenses evaluated.
MaxPathLen == 2

\* ----------------------------------------------------------- Python values

None == [k |-> "none", v |-> "None"]

PyStr(s) == [k |-> "str", v |-> s]

PyInt(n) == [k |-> "int", v |-> n]

PyList(xs) == [k |-> "list", v |-> xs]

PyDict(d) == [k |-> "dict", v |-> d]

\* A member of the SpanType enumeration, by member name.
PyEnum(m) == [k |-> "SpanType", v |-> m]

\* The context (identity) of the span with the given span_id.
SpanContext(i) == [k |-> "SpanContext", v |-> i]

\* dict helpers: a dict is a function whose domain is its key set.
EmptyDict == [x \in {} |-> None]

DictSet(d, key, val) == [x \in (DOMAIN d) \cup {key} |-> IF x = key THEN val ELSE d[x]]

\* The dict left as it is.
DictDelKeep(d, key) == d

DictDel(d, key) == [x \in (DOMAIN d) \ {key} |-> d[x]]

DictGet(d, key, default) == IF key \in DOMAIN d THEN d[key] ELSE default

\* ------------------------------------------------------------ the taxonomy

\* The span classes of trace/span.py, by class name.
Classes ==
    { "Span", "SpanUntyped", "TransSpanRecord", "SpanMethodCall",
      "TransSpanRecordAppCall", "SpanRoot", "SpanRetriever", "SpanReranker",
      "SpanLLM", "SpanMemory", "SpanEmbedding", "SpanTool", "SpanAgent",
      "SpanTask", "SpanOther" }

\* SpanTyped = TransSpanRecordAppCall
SpanTyped == "TransSpanRecordAppCall"

\* The direct base class of each span class ("OTSpan" for Span itself).
Base(c) ==
    CASE c = "Span" -> "OTSpan"
      [] c = "SpanUntyped" -> "Span"
      [] c = "TransSpanRecord" -> "Span"
      [] c = "SpanMethodCall" -> "TransSpanRecord"
      [] c = "TransSpanRecordAppCall" -> "SpanMethodCall"
      [] c = "SpanRoot" -> "TransSpanRecord"
      [] OTHER -> SpanTyped

\* The SpanType enumeration: member name -> member value.
SpanTypeMembers ==
    { "UNTYPED", "ROOT", "RETRIEVER", "RERANKER", "LLM", "MEMORY",
      "EMBEDDING", "TOOL", "AGENT", "TASK", "OTHER" }

\* The enumeration with AGENT given the value of TOOL.
SpanTypeValueDup(m) ==
    CASE m = "UNTYPED" -> "SpanUntyped"
      [] m = "ROOT" -> "SpanRoot"
      [] m = "RETRIEVER" -> "SpanRetriever"
      [] m = "RERANKER" -> "SpanReranker"
      [] m = "LLM" -> "SpanLLM"
      [] m = "MEMORY" -> "SpanMemory"
      [] m = "EMBEDDING" -> "SpanEmbedding"
      [] m = "TOOL" -> "SpanTool"
      [] m = "AGENT" -> "SpanTool"
      [] m = "TASK" -> "SpanTask"
      [] m = "OTHER" -> "SpanOther"

SpanTypeValue(m) ==
    CASE m = "UNTYPED" -> "SpanUntyped"
      [] m = "ROOT" -> "SpanRoot"
      [] m = "RETRIEVER" -> "SpanRetriever"
      [] m = "RERANKER" -> "SpanReranker"
      [] m = "LLM" -> "SpanLLM"
      [] m = "MEMORY" -> "SpanMemory"
      [] m = "EMBEDDING" -> "SpanEmbedding"
      [] m = "TOOL" -> "SpanTool"
      [] m = "AGENT" -> "SpanAgent"
      [] m = "TASK" -> "SpanTask"
      [] m = "OTHER" -> "SpanOther"

\* ------------------------------------------------------ declared field types

TStr == [t |-> "str"]

TInt == [t |-> "int"]

TFloat == [t |-> "float"]

TDict == [t |-> "dict"]

TAny == [t |-> "Any"]

TSpanType == [t |-> "SpanType"]

TJSON == [t |-> "JSON"]

TList(T) == [t |-> "List", of |-> T]

TOptional(T) == [t |-> "Optional", of |-> T]

\* A typed field: AttributeProperty(name, typ, typ_factory, default, default_factory)
\* after init_forward has resolved typ and default.
Prop(name, typ, default) == [name |-> name, typ |-> typ, default |-> default]

\* The typed fields each class declares in its own body.
OwnProps(c) ==
    CASE c = "Span" ->
            { Prop("tags", TList(TStr), PyList(<<>>)),
              Prop("span_type", TSpanType, PyEnum("UNTYPED")) }
      [] c = "TransSpanRecord" ->
            { Prop("record_id", TStr, None) }
      [] c = "SpanMethodCall" ->
            { Prop("inputs", TOptional(TDict), None),
              Prop("output", TOptional(TJSON), None),
              Prop("error", TOptional(TAny), None) }
      [] c = "SpanRetriever" ->
            { Prop("query_text", TStr, None),
              Prop("query_embedding", TList(TFloat), None),
              Prop("distance_type", TStr, None),
              Prop("num_contexts", TInt, None),
              Prop("retrieved_contexts", TList(TStr), None),
              Prop("retrieved_scores", TList(TFloat), None),
              Prop("retrieved_embeddings", TList(TList(TFloat)), None) }
      [] c = "SpanReranker" ->
            { Prop("query_text", TStr, None),
              Prop("model_name", TStr, None),
              Prop("top_n", TInt, None),
              Prop("input_context_texts", TList(TStr), None),
              Prop("input_context_scores", TOptional(TList(TFloat)), None),
              Prop("output_ranks", TList(TInt), None) }
      [] c = "SpanLLM" ->
            { Prop("model_name", TStr, None),
              Prop("model_type", TStr, None),
              Prop("temperature", TFloat, None),
              Prop("input_messages", TList(TDict), None),
              Prop("input_token_count", TInt, None),
              Prop("output_messages", TList(TDict), None),
              Prop("output_token_count", TInt, None),
              Prop("cost", TFloat, None) }
      [] c = "SpanMemory" ->
            { Prop("memory_type", TStr, None),
              Prop("remembered", TStr, None) }
      [] c = "SpanEmbedding" ->
            { Prop("input_text", TStr, None),
              Prop("model_name", TStr, None),
              Prop("embedding", TList(TFloat), None) }
      [] c = "SpanTool" ->
            { Prop("description", TStr, None) }
      [] c = "SpanAgent" ->
            { Prop("description", TStr, None) }
      [] OTHER -> {}

\* The typed fields of a class: its own and the ones it inherits.
RECURSIVE InheritedProps(_)
InheritedProps(c) == IF c \notin Classes THEN {} ELSE OwnProps(c) \cup InheritedProps(Base(c))

PropsTable == [c \in Classes |-> InheritedProps(c)]

Props(c) == IF c \in Classes THEN PropsTable[c] ELSE {}

\* The typed field named n of class c.
PropOf(c, n) == CHOOSE p \in Props(c) : p.name = n

PropNames(c) == { p.name : p \in Props(c) }

\* ------------------------------------------------------------- validation

\* Strings that Python's int() / float() parse as a number.
NumericStrings == { "5" }

\* Membership of a value in a declared type (isinstance-style): what it is
\* for a value to conform to the type.
RECURSIVE Conforms(_, _)
Conforms(T, x) ==
    CASE T.t = "str" -> x.k = "str"
      [] T.t = "int" -> x.k = "int"
      [] T.t = "float" -> x.k \in {"float", "int"}
      [] T.t = "dict" -> x.k = "dict"
      [] T.t = "Any" -> TRUE
      [] T.t = "SpanType" -> x.k = "SpanType"
      [] T.t = "JSON" -> x.k \in {"str", "int", "float", "none", "list", "dict"}
      [] T.t = "List" -> x.k = "list" /\ \A i \in DOMAIN x.v : Conforms(T.of, x.v[i])
      [] T.t = "Optional" -> x.k = "none" \/ Conforms(T.of, x)

\* TypeAdapter(T).validate_python(x) returns (TRUE) or raises ValidationError
\* (FALSE).  The adapter validates in pydantic's default (lax) mode: a numeric
\* string is accepted for int and float, and the value of an enumeration
\* member is accepted for the enumeration.  The coerced value it would return
\* is discarded by the caller.
RECURSIVE validate_python(_, _)
validate_python(T, x) ==
    CASE T.t = "str" -> x.k = "str"
      [] T.t = "int" -> x.k = "int" \/ (x.k = "str" /\ x.v \in NumericStrings)
      [] T.t = "float" -> x.k \in {"float", "int"} \/ (x.k = "str" /\ x.v \in NumericStrings)
      [] T.t = "dict" -> x.k = "dict"
      [] T.t = "Any" -> TRUE
      [] T.t = "SpanType" ->
            x.k = "SpanType" \/ (x.k = "str" /\ \E m \in SpanTypeMembers : SpanTypeValue(m) = x.v)
      [] T.t = "JSON" -> x.k \in {"str", "int", "float", "none", "list", "dict"}
      [] T.t = "List" -> x.k = "list" /\ \A i \in DOMAIN x.v : validate_python(T.of, x.v[i])
      [] T.t = "Optional" -> x.k = "none" \/ validate_python(T.of, x)

\* ------------------------------------------------------------ span state

SpanIds == 1 .. NumSpans

\* The values written to typed fields.
Values ==
    { PyStr("a"), PyStr("5"), PyInt(5), PyList(<<PyStr("a")>>), PyList(<<>>),
      PyEnum("LLM"), None }

\* The elements appended to list values.
Elements == { PyStr("a") }

\* Nanosecond ticks assigned to end_timestamp.
Timestamps == { PyInt(5) }

NoClass == "NoClass"

VARIABLES
    cls,            \* span id -> class of the span (NoClass before construction)
    attributes,     \* span id -> the span's attribute dict
    links,          \* span id -> the span's links, in insertion order
    start_timestamp,\* span id -> None or the tick at which the span started
    end_timestamp,  \* span id -> None or the tick at which the span ended
    defaults,       \* field name -> the default object its descriptor holds
    assigned,       \* span id -> the contexts assigned as parent so far (history)
    lastOp,         \* the last operation performed and how it ended
    nops            \* operations performed so far

VARIABLES
    resolved,   \* the last to_class call: the tag and what came of it
    reverse     \* the last reverse lookup: a class and the members mapping to it

spanVars ==
    <<cls, attributes, links, start_timestamp, end_timestamp, defaults, assigned, lastOp, nops>>

taxVars == <<resolved, reverse>>

VARIABLES
    registered_feedback_functions,  \* the registry: name -> feedback function
    fb                              \* the last call (of the feedback action or of
                                    \* get_sole_item): its inputs and what came of it

fbVars == <<registered_feedback_functions, fb>>

VARIABLES
    score,  \* the last call of a Bedrock feedback function and what it returned
    mig,    \* the run of data_migrate: its inputs, its position, what it has done
    rails   \* the last attribute lookup on a TruRails recorder and what came of it

auxVars == <<score, mig, rails>>

\* What the operations on spans leave alone.
nonSpanVars == <<taxVars, fbVars, auxVars>>

\* What the lookups in the enumeration leave alone.
nonTaxVars == <<spanVars, fbVars, auxVars>>

\* What the feedback action leaves alone.
nonFbVars == <<spanVars, taxVars, auxVars>>

\* What the Bedrock provider, the data migration and the recorder leave alone.
nonAuxVars == <<spanVars, taxVars, fbVars>>


\* OTSpan.vendor_attr: the key under which a name is stored.
vendor_attr(name) == "trulens_eval@" \o name

Op(op, s, name, value, outcome) ==
    [op |-> op, span |-> s, name |-> name, value |-> value, outcome |-> outcome]

\* The defaults that init_forward leaves in the descriptors of the fields
\* declared with a default_factory (tags: list, span_type: SpanType.UNTYPED).
\* The factory is called once per descriptor, and a descriptor is shared by
\* every span of the class that declares it and of its subclasses.
DeclaredDefaults ==
    [n \in {"tags", "span_type"} |-> (CHOOSE p \in OwnProps("Span") : p.name = n).default]

SpanInit0 ==
    /\ cls = [s \in SpanIds |-> NoClass]
    /\ defaults = DeclaredDefaults
    /\ attributes = [s \in SpanIds |-> EmptyDict]
    /\ links = [s \in SpanIds |-> <<>>]
    /\ start_timestamp = [s \in SpanIds |-> None]
    /\ end_timestamp = [s \in SpanIds |-> None]
    /\ assigned = [s \in SpanIds |-> <<>>]
    /\ lastOp = Op("none", 0, "", None, "ok")
    /\ nops = 0

Constructed(s) == cls[s] # NoClass

\* OTSpan.set_attribute(key, value)
set_attribute(attrs, key, value) == DictSet(attrs, key, value)

\* Span.__init__ with no attributes or links given: the span_type key is
\* stored directly with the name of the class.
SpanNew(s, c) ==
    /\ nops < MaxOps
    /\ ~Constructed(s)
    /\ \A r \in SpanIds : r < s => Constructed(r)
    /\ cls' = [cls EXCEPT ![s] = c]
    /\ attributes' = [attributes EXCEPT
            ![s] = set_attribute(EmptyDict, vendor_attr("span_type"), PyStr(c))]
    /\ links' = [links EXCEPT ![s] = <<>>]
    /\ start_timestamp' = [start_timestamp EXCEPT ![s] = None]
    /\ end_timestamp' = [end_timestamp EXCEPT ![s] = None]
    /\ assigned' = [assigned EXCEPT ![s] = <<>>]
    /\ lastOp' = Op("init", s, "", PyStr(c), "ok")
    /\ nops' = nops + 1
    /\ UNCHANGED defaults
    /\ UNCHANGED nonSpanVars

\* Attribute dicts given to the constructor: keys of other vendors and a bare
\* key named like a typed field.
InitialAttributes ==
    { EmptyDict,
      DictSet(DictSet(EmptyDict, "tags", PyStr("bare")), "other@tags", PyInt(5)) }

\* Span.__init__(attributes=attrs0): the dict given is copied into the span,
\* then the span_type key is stored.
SpanNewWith(s, c, attrs0) ==
    /\ nops < MaxOps
    /\ ~Constructed(s)
    /\ \A r \in SpanIds : r < s => Constructed(r)
    /\ cls' = [cls EXCEPT ![s] = c]
    /\ attributes' = [attributes EXCEPT
            ![s] = set_attribute(attrs0, vendor_attr("span_type"), PyStr(c))]
    /\ links' = [links EXCEPT ![s] = <<>>]
    /\ start_timestamp' = [start_timestamp EXCEPT ![s] = None]
    /\ end_timestamp' = [end_timestamp EXCEPT ![s] = None]
    /\ assigned' = [assigned EXCEPT ![s] = <<>>]
    /\ lastOp' = Op("init", s, "", PyStr(c), "ok")
    /\ nops' = nops + 1
    /\ UNCHANGED defaults
    /\ UNCHANGED nonSpanVars

\* self.default of the descriptor of field n after init_forward.
CurrentDefault(c, n) == IF n \in DOMAIN defaults THEN defaults[n] ELSE PropOf(c, n).default

\* A read that looks every field up under the key of tags.
AttrGetTags(s, n) == DictGet(attributes[s], vendor_attr("tags"), CurrentDefault(cls[s], n))

\* AttributeProperty.__get__(obj): attributes.get(vendor key, default)
AttrGet(s, n) == DictGet(attributes[s], vendor_attr(n), CurrentDefault(cls[s], n))

\* A read of the field n of span s: nothing is stored.
AttrRead(s, n) ==
    /\ nops < MaxOps
    /\ Constructed(s)
    /\ n \in PropNames(cls[s])
    /\ lastOp' = Op("get", s, n, AttrGet(s, n), "ok")
    /\ nops' = nops + 1
    /\ UNCHANGED nonSpanVars
    /\ UNCHANGED <<cls, attributes, links, start_timestamp, end_timestamp, defaults, assigned>>

\* getattr(span, n).append(x): the list the read returns is changed in
\* place.  It is the list stored under the vendor key when the key is
\* present, and the default object of the descriptor when it is absent.
ListAppend(s, n, x) ==
    /\ nops < MaxOps
    /\ Constructed(s)
    /\ n \in PropNames(cls[s])
    /\ AttrGet(s, n).k = "list"
    /\ IF vendor_attr(n) \in DOMAIN attributes[s]
       THEN /\ attributes' = [attributes EXCEPT
                    ![s] = DictSet(attributes[s], vendor_attr(n),
                                   PyList(Append(AttrGet(s, n).v, x)))]
            /\ UNCHANGED defaults
       ELSE /\ defaults' = [defaults EXCEPT ![n] = PyList(Append(AttrGet(s, n).v, x))]
            /\ UNCHANGED attributes
    /\ lastOp' = Op("append", s, n, x, "ok")
    /\ nops' = nops + 1
    /\ UNCHANGED nonSpanVars
    /\ UNCHANGED <<cls, links, start_timestamp, end_timestamp, assigned>>

\* The store under the bare name instead of the vendor key.
AttrStoreBare(attrs, n, value) == DictSet(attrs, n, value)

\* What AttributeProperty.__set__ leaves in the attribute dict when the
\* validation has passed.
AttrStore(attrs, n, value) == DictSet(attrs, vendor_attr(n), value)

\* AttributeProperty.__set__(obj, value)
AttrSet(s, n, value) ==
    /\ nops < MaxOps
    /\ Constructed(s)
    /\ n \in PropNames(cls[s])
    /\ IF validate_python(PropOf(cls[s], n).typ, value)
       THEN /\ attributes' = [attributes EXCEPT ![s] = AttrStore(attributes[s], n, value)]
            /\ lastOp' = Op("set", s, n, value, "ok")
       ELSE /\ attributes' = attributes
            /\ lastOp' = Op("set", s, n, value, "ValidationError")
    /\ nops' = nops + 1
    /\ UNCHANGED nonSpanVars
    /\ UNCHANGED <<cls, links, start_timestamp, end_timestamp, defaults, assigned>>

\* The removal of the bare name instead of the vendor key.
AttrRemoveBare(attrs, n) == DictDel(attrs, n)

\* What AttributeProperty.__delete__ leaves in the attribute dict when the
\* key is present.
AttrRemove(attrs, n) == DictDel(attrs, vendor_attr(n))

\* AttributeProperty.__delete__(obj): del attributes[vendor key]
AttrDelete(s, n) ==
    /\ nops < MaxOps
    /\ Constructed(s)
    /\ n \in PropNames(cls[s])
    /\ IF vendor_attr(n) \in DOMAIN attributes[s]
       THEN /\ attributes' = [attributes EXCEPT ![s] = AttrRemove(attributes[s], n)]
            /\ lastOp' = Op("delete", s, n, None, "ok")
       ELSE /\ attributes' = attributes
            /\ lastOp' = Op("delete", s, n, None, "KeyError")
    /\ nops' = nops + 1
    /\ UNCHANGED nonSpanVars
    /\ UNCHANGED <<cls, links, start_timestamp, end_timestamp, defaults, assigned>>

\* ------------------------------------------------------------ parent links

\* The links of a span are a dict kept in insertion order: a sequence of
\* [ctx, attrs] entries with pairwise distinct contexts.
LinkContexts(L) == { L[i].ctx : i \in DOMAIN L }

\* OTSpan.add_link(context, attributes): links[context] = attributes
add_link(L, ctx, attrs) ==
    IF ctx \in LinkContexts(L)
    THEN [i \in DOMAIN L |-> IF L[i].ctx = ctx THEN [ctx |-> ctx, attrs |-> attrs] ELSE L[i]]
    ELSE Append(L, [ctx |-> ctx, attrs |-> attrs])

\* del links[context]
del_link(L, ctx) == SelectSeq(L, LAMBDA e : e.ctx # ctx)

IsParentLink(e) == DictGet(e.attrs, vendor_attr("relationship"), None) = PyStr("parent")

ParentLinks(L) == { i \in DOMAIN L : IsParentLink(L[i]) }

\* Span.parent_context getter on a links dict: the context of the first link
\* whose relationship is "parent", None if there is none.
parent_context_of(L) ==
    IF ParentLinks(L) = {}
    THEN None
    ELSE L[CHOOSE i \in ParentLinks(L) : \A j \in ParentLinks(L) : i <= j].ctx

parent_context(s) == parent_context_of(links[s])

\* The span's own id in place of its parent's.
parent_span_id_own(s) == IF parent_context(s) # None THEN PyInt(s) ELSE None

\* Span.parent_span_id
parent_span_id(s) == IF parent_context(s) # None THEN PyInt(parent_context(s).v) ELSE None

\* The setter without the removal of the existing parent link.
parent_context_set_keep(L, value) ==
    add_link(L, value, DictSet(EmptyDict, vendor_attr("relationship"), PyStr("parent")))

\* What the parent_context setter leaves in links for a value that is not None.
parent_context_set(L, value) ==
    add_link(
        IF parent_context_of(L) # None THEN del_link(L, parent_context_of(L)) ELSE L,
        value,
        DictSet(EmptyDict, vendor_attr("relationship"), PyStr("parent")))

\* The setter with None removing the parent link.
parent_context_assign_clear(L, value) ==
    IF value = None
    THEN (IF parent_context_of(L) # None THEN del_link(L, parent_context_of(L)) ELSE L)
    ELSE parent_context_set(L, value)

\* What the parent_context setter leaves in links: nothing is done for None.
parent_context_assign(L, value) == IF value = None THEN L ELSE parent_context_set(L, value)

\* Span.parent_context setter
SetParent(s, value) ==
    /\ nops < MaxOps
    /\ Constructed(s)
    /\ links' = [links EXCEPT ![s] = parent_context_assign(links[s], value)]
    /\ assigned' = [assigned EXCEPT
            ![s] = IF value = None THEN assigned[s] ELSE Append(assigned[s], value)]
    /\ lastOp' = Op("set_parent", s, "", value, "ok")
    /\ nops' = nops + 1
    /\ UNCHANGED nonSpanVars
    /\ UNCHANGED <<cls, attributes, start_timestamp, end_timestamp, defaults>>

\* Assignment of end_timestamp: the span is sealed.
SetEndTimestamp(s, t) ==
    /\ nops < MaxOps
    /\ Constructed(s)
    /\ end_timestamp' = [end_timestamp EXCEPT ![s] = t]
    /\ lastOp' = Op("set_end_timestamp", s, "", t, "ok")
    /\ nops' = nops + 1
    /\ UNCHANGED nonSpanVars
    /\ UNCHANGED <<cls, attributes, links, start_timestamp, defaults, assigned>>

Sealed(s) == end_timestamp[s] # None

\* ------------------------------------------------------- datetime views

\* Nanoseconds in a microsecond, the resolution of datetime.datetime.
NsPerMicrosecond == 1000

\* A datetime.datetime, by its microseconds since the epoch.
PyDatetime(us) == [k |-> "datetime", v |-> us]

\* containers.datetime_of_ns_timestamp(timestamp): the datetime of a tick; the
\* nanoseconds below the microsecond do not fit in a datetime.datetime and
\* are dropped.
datetime_of_ns_timestamp(timestamp) == PyDatetime(timestamp.v \div NsPerMicrosecond)

\* containers.ns_timestamp_of_datetime(dt): the tick of a datetime.
ns_timestamp_of_datetime(dt) == PyInt(dt.v * NsPerMicrosecond)

\* Span.start_datetime (getter)
start_datetime(s) == datetime_of_ns_timestamp(start_timestamp[s])

\* Span.end_datetime (getter)
end_datetime(s) == datetime_of_ns_timestamp(end_timestamp[s])

\* Ticks assigned to the timestamps: on and off a microsecond boundary.
Ticks == { PyInt(0), PyInt(999), PyInt(2000), PyInt(2001), PyInt(1999999) }

\* Datetimes assigned through the datetime setters.
Datetimes == { PyDatetime(0), PyDatetime(2) }

\* Assignment of start_timestamp.
SetStartTimestamp(s, t) ==
    /\ nops < MaxOps
    /\ Constructed(s)
    /\ start_timestamp' = [start_timestamp EXCEPT ![s] = t]
    /\ lastOp' = Op("set_start_timestamp", s, "", t, "ok")
    /\ nops' = nops + 1
    /\ UNCHANGED nonSpanVars
    /\ UNCHANGED <<cls, attributes, links, end_timestamp, defaults, assigned>>

\* Span.start_datetime setter
SetStartDatetime(s, value) ==
    /\ nops < MaxOps
    /\ Constructed(s)
    /\ start_timestamp' = [start_timestamp EXCEPT ![s] = ns_timestamp_of_datetime(value)]
    /\ lastOp' = Op("set_start_datetime", s, "", value, "ok")
    /\ nops' = nops + 1
    /\ UNCHANGED nonSpanVars
    /\ UNCHANGED <<cls, attributes, links, end_timestamp, defaults, assigned>>

\* Span.end_datetime setter
SetEndDatetime(s, value) ==
    /\ nops < MaxOps
    /\ Constructed(s)
    /\ end_timestamp' = [end_timestamp EXCEPT ![s] = ns_timestamp_of_datetime(value)]
    /\ lastOp' = Op("set_end_datetime", s, "", value, "ok")
    /\ nops' = nops + 1
    /\ UNCHANGED nonSpanVars
    /\ UNCHANGED <<cls, attributes, links, start_timestamp, defaults, assigned>>

\* span.start_datetime = span.start_datetime: the datetime read is assigned
\* back.  The operation records the tick the span had before.
ReassignStartDatetime(s) ==
    /\ nops < MaxOps
    /\ Constructed(s)
    /\ start_timestamp[s] # None
    /\ start_timestamp' = [start_timestamp EXCEPT
            ![s] = ns_timestamp_of_datetime(start_datetime(s))]
    /\ lastOp' = Op("reassign_start_datetime", s, "", start_timestamp[s], "ok")
    /\ nops' = nops + 1
    /\ UNCHANGED nonSpanVars
    /\ UNCHANGED <<cls, attributes, links, end_timestamp, defaults, assigned>>

\* span.end_datetime = span.end_datetime
ReassignEndDatetime(s) ==
    /\ nops < MaxOps
    /\ Constructed(s)
    /\ end_timestamp[s] # None
    /\ end_timestamp' = [end_timestamp EXCEPT
            ![s] = ns_timestamp_of_datetime(end_datetime(s))]
    /\ lastOp' = Op("reassign_end_datetime", s, "", end_timestamp[s], "ok")
    /\ nops' = nops + 1
    /\ UNCHANGED nonSpanVars
    /\ UNCHANGED <<cls, attributes, links, start_timestamp, defaults, assigned>>

ParentValues == { SpanContext(i) : i \in SpanIds } \cup { None }

\* ------------------------------------------------- the SpanType enumeration

\* Objects bound in the namespace of the module trulens_eval.trace.span.
ClassObj(n) == [k |-> "class", v |-> n]

OtherObj(n) == [k |-> "object", v |-> n]

\* __name__ of a class object
ClassName(c) == c.v

\* Names the module binds to something that is not a span class (a sample:
\* the logger, the type variable, an imported module, the enumeration and
\* the descriptor class).
OtherModuleNames == { "logger", "T", "json", "SpanType", "AttributeProperty" }

ModuleNames == Classes \cup { "SpanTyped" } \cup OtherModuleNames

\* hasattr(mod_trace.span, name)
hasattr(name) == name \in ModuleNames

\* getattr(mod_trace.span, name), for a name the module has
getattr(name) ==
    CASE name \in Classes -> ClassObj(name)
      [] name = "SpanTyped" -> ClassObj(SpanTyped)
      [] OTHER -> OtherObj(name)

\* A tag: an enumeration member with its name and its value.
Tag(name, value) == [name |-> name, value |-> value]

Member(m) == Tag(m, SpanTypeValue(m))

\* The lookup by the member's name instead of its value.
to_class_by_name(tag) ==
    IF hasattr(tag.name)
    THEN [outcome |-> "ok", result |-> getattr(tag.name)]
    ELSE [outcome |-> "ValueError", result |-> None]

\* SpanType.to_class(self)
to_class(tag) ==
    IF hasattr(tag.value)
    THEN [outcome |-> "ok", result |-> getattr(tag.value)]
    ELSE [outcome |-> "ValueError", result |-> None]

\* The members of SpanType that to_class maps to the class c.
MembersFor(c) ==
    { m \in SpanTypeMembers :
        LET r == to_class(Member(m)) IN r.outcome = "ok" /\ r.result = ClassObj(c) }

\* Tags outside the enumeration, on which to_class can still be called: one
\* whose value is bound to nothing in the module, one whose value is bound to
\* an object that is no class, one whose value is an alias of a class.
UnknownTags ==
    { Tag("FOO", "SpanFoo"), Tag("LOGGER", "logger"), Tag("TYPED", "SpanTyped") }

Tags == { Member(m) : m \in SpanTypeMembers } \cup UnknownTags

TaxInit0 ==
    /\ resolved = [tag |-> Tag("", ""), outcome |-> "none", result |-> None]
    /\ reverse = [class |-> "", members |-> {}]

ToClass(tag) ==
    /\ resolved' = [tag |-> tag] @@ to_class(tag)
    /\ UNCHANGED <<reverse, nonTaxVars>>

ReverseLookup(c) ==
    /\ reverse' = [class |-> c, members |-> MembersFor(c)]
    /\ UNCHANGED <<resolved, nonTaxVars>>

\* ------------------------------------------------------------------ Lens

\* A Python dict of the data a Lens walks keeps its insertion order: its
\* payload is a sequence of [key, val] entries.
Entry(key, val) == [key |-> key, val |-> val]

DictKeys(d) == { d.v[i].key : i \in DOMAIN d.v }

DictItem(d, key) == d.v[CHOOSE i \in DOMAIN d.v : d.v[i].key = key].val

DictValues(d) == [i \in DOMAIN d.v |-> d.v[i].val]

\* The steps of a Lens.
Attribute(name) == [k |-> "attribute", v |-> name]

Index(i) == [k |-> "index", v |-> i]

Slice(start, stop, step) == [k |-> "slice", v |-> <<start, stop, step>>]

Wildcard == [k |-> "wildcard", v |-> <<>>]

Max2(a, b) == IF a >= b THEN a ELSE b

Min2(a, b) == IF a <= b THEN a ELSE b

\* The positions start, start + step, ... before stop.
RECURSIVE Range(_, _, _)
Range(i, stop, step) ==
    IF (step > 0 /\ i < stop) \/ (step < 0 /\ i > stop)
    THEN <<i>> \o Range(i + step, stop, step)
    ELSE <<>>

\* The 0-based positions a Python slice selects in a sequence of length n
\* (slice.indices): open bounds, negative bounds from the end, clamping.
SliceIndices(n, start, stop, step) ==
    LET st == IF step.k = "none" THEN 1 ELSE step.v
        lower == IF st < 0 THEN 0 - 1 ELSE 0
        upper == IF st < 0 THEN n - 1 ELSE n
        from == IF start.k = "none" THEN (IF st < 0 THEN upper ELSE lower)
                ELSE IF start.v < 0 THEN Max2(start.v + n, lower)
                ELSE Min2(start.v, upper)
        to == IF stop.k = "none" THEN (IF st < 0 THEN lower ELSE upper)
              ELSE IF stop.v < 0 THEN Max2(stop.v + n, lower)
              ELSE Min2(stop.v, upper)
    IN  Range(from, to, st)

\* The step with an attribute step that emits None for a mapping without the
\* key (dict.get) instead of nothing.
StepGetOrNone(step, x) ==
    CASE step.k = "attribute" ->
            IF x.k = "dict"
            THEN (IF step.v \in DictKeys(x) THEN <<DictItem(x, step.v)>> ELSE <<None>>)
            ELSE <<>>
      [] step.k = "index" ->
            IF x.k = "list"
            THEN LET j == IF step.v < 0 THEN step.v + Len(x.v) ELSE step.v
                 IN  IF 0 <= j /\ j < Len(x.v) THEN <<x.v[j + 1]>> ELSE <<>>
            ELSE <<>>
      [] step.k = "slice" ->
            IF x.k = "list"
            THEN LET idx == SliceIndices(Len(x.v), step.v[1], step.v[2], step.v[3])
                 IN  [i \in DOMAIN idx |-> x.v[idx[i] + 1]]
            ELSE <<>>
      [] step.k = "wildcard" ->
            IF x.k = "list" THEN x.v
            ELSE IF x.k = "dict" THEN DictValues(x)
            ELSE <<>>

\* One step applied to one value: the values it emits, in order.
StepGet(step, x) ==
    CASE step.k = "attribute" ->
            IF x.k = "dict" /\ step.v \in DictKeys(x) THEN <<DictItem(x, step.v)>> ELSE <<>>
      [] step.k = "index" ->
            IF x.k = "list"
            THEN LET j == IF step.v < 0 THEN step.v + Len(x.v) ELSE step.v
                 IN  IF 0 <= j /\ j < Len(x.v) THEN <<x.v[j + 1]>> ELSE <<>>
            ELSE <<>>
      [] step.k = "slice" ->
            IF x.k = "list"
            THEN LET idx == SliceIndices(Len(x.v), step.v[1], step.v[2], step.v[3])
                 IN  [i \in DOMAIN idx |-> x.v[idx[i] + 1]]
            ELSE <<>>
      [] step.k = "wildcard" ->
            IF x.k = "list" THEN x.v
            ELSE IF x.k = "dict" THEN DictValues(x)
            ELSE <<>>

\* One step applied to the values of the current result set from the last
\* to the first.
RECURSIVE StepGetAllRev(_, _)
StepGetAllRev(step, xs) ==
    IF xs = <<>> THEN <<>> ELSE StepGetAllRev(step, Tail(xs)) \o StepGet(step, Head(xs))

\* One step applied to every value of the current result set.
RECURSIVE StepGetAll(_, _)
StepGetAll(step, xs) ==
    IF xs = <<>> THEN <<>> ELSE StepGet(step, Head(xs)) \o StepGetAll(step, Tail(xs))

RECURSIVE PathGet(_, _)
PathGet(path, xs) ==
    IF path = <<>> THEN xs ELSE PathGet(Tail(path), StepGetAll(Head(path), xs))

\* The evaluation started from the root taken twice.
LensGetTwice(lens, obj) == PathGet(lens, <<obj, obj>>)

\* Lens.get(obj): the result set of the Lens on obj.  A Lens is the sequence
\* of its steps.
LensGet(lens, obj) == PathGet(lens, <<obj>>)

\* The sole item that is the first result, whatever the number of results.
get_sole_item_first(lens, obj) ==
    LET all == LensGet(lens, obj)
    IN  IF Len(all) >= 1
        THEN [outcome |-> "ok", value |-> all[1], count |-> Len(all)]
        ELSE [outcome |-> "AmbiguousOrMissingSelection", value |-> None, count |-> 0]

\* Lens.get_sole_item(obj)
get_sole_item(lens, obj) ==
    LET all == LensGet(lens, obj)
    IN  IF Len(all) = 1
        THEN [outcome |-> "ok", value |-> all[1], count |-> 1]
        ELSE [outcome |-> "AmbiguousOrMissingSelection", value |-> None, count |-> Len(all)]

\* The tokens of the textual form of a path.
Name(n) == [k |-> "name", v |-> n]

Dot == [k |-> "dot", v |-> 0]

LBracket == [k |-> "lbracket", v |-> 0]

RBracket == [k |-> "rbracket", v |-> 0]

Colon == [k |-> "colon", v |-> 0]

Star == [k |-> "star", v |-> 0]

Number(i) == [k |-> "int", v |-> i]

\* The bounds of a slice text "a:b:c" (each part an int or empty).
RECURSIVE SliceParts(_, _)
SliceParts(toks, cur) ==
    IF toks = <<>> THEN <<cur>>
    ELSE IF Head(toks).k = "colon" THEN <<cur>> \o SliceParts(Tail(toks), None)
    ELSE SliceParts(Tail(toks), PyInt(Head(toks).v))

\* Every bracketed text taken for a wildcard.
BracketStepWild(inner) == Wildcard

\* The step a bracketed text stands for.
BracketStep(inner) ==
    IF inner = <<>> \/ inner = <<Star>> THEN Wildcard
    ELSE IF Len(inner) = 1 THEN Index(inner[1].v)
    ELSE LET parts == SliceParts(inner, None)
         IN  Slice(parts[1], parts[2], IF Len(parts) >= 3 THEN parts[3] ELSE None)

\* Lens.of_string(s), s given by its tokens.
RECURSIVE of_string(_)
of_string(toks) ==
    IF toks = <<>> THEN <<>>
    ELSE IF Head(toks).k = "name" THEN <<Attribute(Head(toks).v)>> \o of_string(Tail(toks))
    ELSE IF Head(toks).k = "dot" THEN of_string(Tail(toks))
    ELSE LET close == CHOOSE j \in DOMAIN toks :
                        /\ toks[j].k = "rbracket"
                        /\ \A i \in 1 .. j - 1 : toks[i].k # "rbracket"
         IN  <<BracketStep(SubSeq(toks, 2, close - 1))>>
                \o of_string(SubSeq(toks, close + 1, Len(toks)))

\* The textual form of a bound of a slice: an int or nothing.
PartText(b) == IF b.k = "none" THEN <<>> ELSE <<Number(b.v)>>

\* The textual form of a step: .name, [i], [start:stop:step], [*].
StepText(step) ==
    CASE step.k = "attribute" -> <<Dot, Name(step.v)>>
      [] step.k = "index" -> <<LBracket, Number(step.v), RBracket>>
      [] step.k = "slice" ->
            <<LBracket>> \o PartText(step.v[1]) \o <<Colon>> \o PartText(step.v[2])
                \o <<Colon>> \o PartText(step.v[3]) \o <<RBracket>>
      [] step.k = "wildcard" -> <<LBracket, Star, RBracket>>

RECURSIVE PathText(_)
PathText(lens) == IF lens = <<>> THEN <<>> ELSE StepText(Head(lens)) \o PathText(Tail(lens))

\* The textual form of a Lens built step by step: the texts of its steps,
\* without the dot before a leading name.
TextOf(lens) ==
    LET toks == PathText(lens)
    IN  IF toks # <<>> /\ Head(toks) = Dot THEN Tail(toks) ELSE toks

\* ------------------------------------------------------- RailsActionSelect

\* Lens().action
Action == <<Attribute("action")>>

Events == Action \o <<Attribute("events")>>

Context == Action \o <<Attribute("context")>>

RetrievalContexts == Context \o <<Attribute("relevant_chunks_sep")>>

UserMessage == Context \o <<Attribute("user_message")>>

BotMessage == Context \o <<Attribute("bot_message")>>

LastUserMessage == Context \o <<Attribute("last_user_message")>>

LastBotMessage == Context \o <<Attribute("last_bot_message")>>

\* ------------------------------------------------------ the feedback action

\* A selector given as a string (by its tokens) or as a Lens.
Text(toks) == [k |-> "str", v |-> toks]

LensObj(path) == [k |-> "Lens", v |-> path]

\* A feedback function: its name and the scoring function it wraps.  "match"
\* scores 1 when all its arguments are equal and 0 otherwise; "raises" fails
\* with an exception of its own.
FeedbackFn(name, imp) == [name |-> name, imp |-> imp]

FeedbackFns == { FeedbackFn("language_match", "match"), FeedbackFn("broken", "raises") }

FunctionNames == { "language_match", "broken" }

\* The scoring function applied to the bound arguments (a sequence of
\* [arg, value] pairs).
Imp(imp, args) ==
    IF imp = "raises"
    THEN [outcome |-> "ImpError", result |-> None]
    ELSE [outcome |-> "ok",
          result |-> IF \A i, j \in DOMAIN args : args[i].value = args[j].value
                     THEN PyInt(1) ELSE PyInt(0)]

\* The selectors whose Lens has no sole item in the source, in order.
Unbound(selectors, source_data) ==
    SelectSeq(selectors, LAMBDA e : get_sole_item(e.lens, source_data).outcome # "ok")

\* Feedback.run(source_data) of a feedback function bound to selectors (a
\* sequence of [arg, lens] pairs): every Lens is resolved to its sole item
\* before the scoring function is invoked; the first that has none fails the
\* binding.
FeedbackRun(fn, selectors, source_data) ==
    IF Unbound(selectors, source_data) # <<>>
    THEN [outcome |-> "AmbiguousOrMissingSelection", result |-> None, invoked |-> FALSE,
          count |-> get_sole_item(Unbound(selectors, source_data)[1].lens, source_data).count]
    ELSE LET args == [i \in DOMAIN selectors |->
                        [arg |-> selectors[i].arg,
                         value |-> get_sole_item(selectors[i].lens, source_data).value]]
         IN  [outcome |-> Imp(fn.imp, args).outcome, result |-> Imp(fn.imp, args).result,
              invoked |-> TRUE, count |-> 1]

\* ActionResult(return_value, context_updates)
ActionResult(return_value) ==
    [outcome |-> "ActionResult", return_value |-> return_value,
     context_updates |-> <<Entry("result", return_value)>>]

Raised(error, count, invoked) ==
    [outcome |-> error, return_value |-> None, context_updates |-> <<>>,
     count |-> count, invoked |-> invoked]

\* The selectors with the strings among them parsed.
ParsedSelectors(selectors) ==
    [i \in DOMAIN selectors |->
        [arg |-> selectors[i].arg,
         lens |-> IF selectors[i].lens.k = "str"
                  THEN of_string(selectors[i].lens.v)
                  ELSE selectors[i].lens.v]]

\* dict(action=dict(events=events, context=context, llm=llm, config=config))
SourceData(events, context, llm, config) ==
    PyDict(<<Entry("action",
        PyDict(<<Entry("events", events), Entry("context", context),
                 Entry("llm", llm), Entry("config", config)>>))>>)

\* The try block of the action: the run of the feedback function, with any
\* exception of it turned into a result of None.
TryRun(fn, selectors, source_data) ==
    LET r == FeedbackRun(fn, selectors, source_data)
    IN  IF r.outcome = "ok"
        THEN ActionResult(r.result) @@ [count |-> r.count, invoked |-> r.invoked]
        ELSE ActionResult(None) @@ [count |-> r.count, invoked |-> r.invoked]

\* FeedbackActions.feedback(events, context, llm, config, function, selectors,
\* verbose) with the registry as it is: what the caller gets.  selectors is
\* None or a dict, whose payload is a sequence of [arg, lens] pairs.
feedback(registry, events, context, function, selectors, verbose) ==
    IF function \notin DOMAIN registry THEN Raised("ValueError", 0, FALSE)
    ELSE IF selectors.k = "none" THEN Raised("ValueError", 0, FALSE)
    ELSE LET sel == ParsedSelectors(selectors.v)
             source_data == SourceData(events, context, None, None)
         IN  IF verbose /\ Unbound(sel, source_data) # <<>>
             THEN Raised("AmbiguousOrMissingSelection",
                         get_sole_item(Unbound(sel, source_data)[1].lens, source_data).count,
                         FALSE)
             ELSE TryRun(registry[function], sel, source_data)

\* The inputs of the action.
Sel(arg, lens) == [arg |-> arg, lens |-> lens]

ContextInputs ==
    { None,
      PyDict(<<Entry("last_user_message", PyStr("hi")), Entry("bot_message", PyStr("hi"))>>),
      PyDict(<<Entry("last_user_message", PyStr("hi")), Entry("bot_message", PyStr("salut")),
               Entry("relevant_chunks_sep", PyList(<<PyStr("c1"), PyStr("c2")>>))>>) }

EventInputs == { None, PyList(<<PyStr("e1"), PyStr("e2")>>) }

SelectorInputs ==
    { None,
      PyDict(<<Sel("text1", Text(<<Name("action"), Dot, Name("context"), Dot,
                                   Name("last_user_message")>>)),
               Sel("text2", LensObj(BotMessage))>>),
      PyDict(<<Sel("text1", LensObj(LastUserMessage)),
               Sel("text2", LensObj(RetrievalContexts \o <<Wildcard>>))>>),
      PyDict(<<Sel("text1", Text(<<Name("action"), Dot, Name("events"),
                                   LBracket, Number(0), RBracket>>)),
               Sel("text2", LensObj(Events \o <<Index(0 - 2)>>))>>),
      PyDict(<<Sel("text1", LensObj(RetrievalContexts \o <<Slice(PyInt(1), None, None)>>)),
               Sel("text2", Text(<<Name("action"), Dot, Name("context"), Dot,
                                   Name("relevant_chunks_sep"),
                                   LBracket, Number(1), Colon, RBracket>>))>>) }

LensInputs ==
    { Action, Context, LastUserMessage, RetrievalContexts \o <<Wildcard>>,
      Events \o <<Index(0)>>, Events \o <<Index(2)>>, Events \o <<Slice(None, None, PyInt(0 - 1))>>,
      Context \o <<Wildcard>>, <<>> }

FbInit0 ==
    /\ registered_feedback_functions = EmptyDict
    /\ fb = [op |-> "none"]

\* FeedbackActions.register_feedback_functions(**kwargs), one keyword
RegisterFeedbackFunctions(name, fn) ==
    /\ registered_feedback_functions' = DictSet(registered_feedback_functions, name, fn)
    /\ UNCHANGED <<fb, nonFbVars>>

\* A call of the feedback action.
Feedback(events, context, function, selectors, verbose) ==
    /\ fb' = [op |-> "feedback", function |-> function, selectors |-> selectors,
              events |-> events, context |-> context, verbose |-> verbose]
             @@ feedback(registered_feedback_functions, events, context, function,
                         selectors, verbose)
    /\ UNCHANGED <<registered_feedback_functions, nonFbVars>>

\* A call of Lens.get_sole_item on the source data of an action.
GetSoleItem(lens, events, context) ==
    /\ fb' = [op |-> "get_sole_item", lens |-> lens,
              obj |-> SourceData(events, context, None, None)]
             @@ get_sole_item(lens, SourceData(events, context, None, None))
    /\ UNCHANGED <<registered_feedback_functions, nonFbVars>>

\* The steps the evaluated Lenses are made of: names present and absent in
\* the data, positions in and out of range, from the start and from the end,
\* slices forward and backward, the wildcard.
LensSteps ==
    { Attribute("a"), Attribute("b"), Index(0), Index(0 - 1), Index(2),
      Slice(PyInt(1), None, None), Slice(None, None, PyInt(0 - 1)), Wildcard }

\* The Lenses of at most MaxPathLen steps.
LensPaths == UNION { [1 .. n -> LensSteps] : n \in 0 .. MaxPathLen }

\* The values the Lenses are evaluated on: scalars, sequences, mappings and
\* nestings of them.
LensObjects ==
    { None,
      PyInt(5),
      PyList(<<PyInt(10), PyInt(20), PyInt(30)>>),
      PyList(<<PyList(<<PyInt(1), PyInt(2)>>), PyList(<<PyInt(3), PyInt(4)>>)>>),
      PyDict(<<Entry("a", PyDict(<<Entry("b", PyList(<<PyInt(5), PyInt(6)>>))>>))>>),
      PyDict(<<Entry("x", PyList(<<PyInt(1)>>)), Entry("a", PyList(<<PyInt(2), PyInt(3)>>))>>),
      PyList(<<PyDict(<<Entry("a", PyInt(1))>>), PyList(<<PyInt(7)>>),
               PyDict(<<Entry("x", PyInt(2))>>), PyInt(9),
               PyDict(<<Entry("b", PyInt(3)), Entry("a", PyInt(4))>>)>>) }

\* A Lens and a value to evaluate it on, before any call is made.
LensInit0 ==
    /\ registered_feedback_functions = EmptyDict
    /\ fb \in { [op |-> "none", lens |-> lens, obj |-> obj] :
                    lens \in LensPaths \cup LensInputs, obj \in LensObjects }

\* A call of Lens.get: the result set, in order.
LensEval(lens, obj) ==
    /\ fb.op = "none"
    /\ fb' = [op |-> "get", lens |-> lens, obj |-> obj, outcome |-> "ok",
              result |-> LensGet(lens, obj)]
    /\ UNCHANGED <<registered_feedback_functions, nonFbVars>>

\* A call of Lens.of_string on the textual form of a Lens.
OfString(lens) ==
    /\ fb.op = "none"
    /\ fb' = [op |-> "of_string", lens |-> lens, text |-> TextOf(lens),
              parsed |-> of_string(TextOf(lens))]
    /\ UNCHANGED <<registered_feedback_functions, nonFbVars>>

\* ------------------------------------------------------------ specifications

\* ------------------------------------------------- Bedrock feedback provider

\* The divisor of the rating in the feedback functions ("/ 10").
Normalizer == 10

\* The value re_1_10_rating returns when it reads no rating.
NoRating == 0 - 10

\* The ratings a model response can carry.
Ratings == 1..Normalizer

\* Model responses (the return of _create_chat_completion), as their words:
\* the bare rating, a rating after a word, and a response without a rating.
Responses ==
    {<<PyInt(r)>> : r \in Ratings}
        \cup {<<PyStr("Rating"), PyInt(r)>> : r \in Ratings}
        \cup {<<PyStr("unsure")>>}

\* utils.generated.re_1_10_rating(str_val): the first number of the response,
\* NoRating when there is none.
re_1_10_rating(response) ==
    LET nums == {i \in 1..Len(response) : response[i].k = "int"}
    IN  IF nums = {} THEN NoRating
        ELSE response[CHOOSE i \in nums : \A j \in nums : i <= j].v

\* A float computed as num / den.
Quotient(num, den) == [num |-> num, den |-> den]

\* Bedrock.sentiment(text): the rating as it is read.
sentiment(response) == Quotient(re_1_10_rating(response), 1)

\* Bedrock.relevance(prompt, response)
relevance(response) == Quotient(re_1_10_rating(response), Normalizer)

\* Bedrock.qs_relevance(question, statement)
qs_relevance(response) == Quotient(re_1_10_rating(response), Normalizer)

\* Bedrock._summarized_groundedness(premise, hypothesis)
summarized_groundedness(response) == Quotient(re_1_10_rating(response), Normalizer)

\* Bedrock.model_agreement(prompt, response)
model_agreement(response) == Quotient(re_1_10_rating(response), Normalizer)

\* Bedrock._langchain_evaluate(text, system_prompt)
langchain_evaluate(response) == Quotient(re_1_10_rating(response), Normalizer)

\* The record of one call of a feedback function whose model answered with
\* response.
Scored(function, response, value) ==
    [op |-> function, response |-> response,
     rating |-> re_1_10_rating(response), value |-> value]

Sentiment(response) ==
    /\ score' = Scored("sentiment", response, sentiment(response))
    /\ UNCHANGED <<mig, rails>>
    /\ UNCHANGED nonAuxVars

Relevance(response) ==
    /\ score' = Scored("relevance", response, relevance(response))
    /\ UNCHANGED <<mig, rails>>
    /\ UNCHANGED nonAuxVars

QsRelevance(response) ==
    /\ score' = Scored("qs_relevance", response, qs_relevance(response))
    /\ UNCHANGED <<mig, rails>>
    /\ UNCHANGED nonAuxVars

SummarizedGroundedness(response) ==
    /\ score' = Scored("_summarized_groundedness", response, summarized_groundedness(response))
    /\ UNCHANGED <<mig, rails>>
    /\ UNCHANGED nonAuxVars

ModelAgreement(response) ==
    /\ score' = Scored("model_agreement", response, model_agreement(response))
    /\ UNCHANGED <<mig, rails>>
    /\ UNCHANGED nonAuxVars

LangchainEvaluate(response) ==
    /\ score' = Scored("_langchain_evaluate", response, langchain_evaluate(response))
    /\ UNCHANGED <<mig, rails>>
    /\ UNCHANGED nonAuxVars

\* ------------------------------------------------------- data migration

\* The greatest migration version of the lists and tables explored.
MaxVersion == 3

\* The decimal text of a version number.
VersionStr(n) == <<"0", "1", "2", "3", "4", "5", "6", "7", "8", "9">>[n + 1]

\* int(s) of a version held as a str.
py_int(s) == CHOOSE n \in 0..9 : VersionStr(n) = s.v

\* The ascending list of the versions of a set, each held as a str
\* (sql_alchemy_migration_versions: List[str]).
VersionList(S) ==
    LET q == CHOOSE f \in [1..Cardinality(S) -> S] :
                 \A i \in 1..Cardinality(S) : \A j \in 1..Cardinality(S) :
                     i < j => f[i] < f[j]
    IN  [i \in 1..Cardinality(S) |-> PyStr(VersionStr(q[i]))]

\* The lists of known migration versions.
VersionLists == { VersionList(S) : S \in (SUBSET (1..MaxVersion)) \ {{}} }

\* The loop of _get_sql_alchemy_compatibility_version from the candidate at
\* index i on.
RECURSIVE compat_loop(_, _, _, _)
compat_loop(versions, i, version, compat_version) ==
    IF i > Len(versions) THEN compat_version
    ELSE LET candidate_version_int == py_int(versions[i])
         IN  compat_loop(versions, i + 1, version,
                 IF candidate_version_int <= py_int(version)
                       /\ candidate_version_int > compat_version
                 THEN candidate_version_int
                 ELSE compat_version)

\* _get_sql_alchemy_compatibility_version(version), over the list versions:
\* what is returned is the int the loop leaves.
get_sql_alchemy_compatibility_version(versions, version) ==
    PyInt(compat_loop(versions, 1, version, py_int(versions[Len(versions)])))

\* A key held as an int.
IntKey(n) == PyInt(n)

\* A key held as a str, as the entry sketched in the table of the source.
StrKey(n) == PyStr(VersionStr(n))

\* An upgrade-path table: the step from each key of the sequence keys to the
\* key after it.
UpgradeChain(keys) ==
    [k \in {keys[i] : i \in 1..(Len(keys) - 1)} |->
        [to |-> keys[(CHOOSE i \in 1..(Len(keys) - 1) : keys[i] = k) + 1],
         fn |-> CHOOSE i \in 1..(Len(keys) - 1) : keys[i] = k]]

\* sqlalchemy_upgrade_paths: the empty table of the source, and the tables
\* with the steps of a chain of versions lo..hi, keyed by int or by str.
UpgradePaths ==
    { <<>> }
        \cup { UpgradeChain([i \in 1..(hi - lo + 1) |-> IntKey(lo + i - 1)]) :
                    lo \in 1..MaxVersion, hi \in 2..MaxVersion }
        \cup { UpgradeChain([i \in 1..(hi - lo + 1) |-> StrKey(lo + i - 1)]) :
                    lo \in 1..MaxVersion, hi \in 2..MaxVersion }

\* A failure of migrate_fn that is passed over: the loop is left for the
\* validation.
step_failed_ignored(m) == [m EXCEPT !.pc = "validate", !.failed = "step"]

\* What data_migrate is left with when migrate_fn raises: the except clause
\* raises VersionException.
step_failed(m) == [m EXCEPT !.pc = "raised", !.error = "VersionException", !.failed = "step"]

\* data_migrate(db, from_version): the entry, up to the loop.
DataMigrate(versions, paths, from_version) ==
    /\ mig.pc = "idle"
    /\ py_int(from_version) >= py_int(versions[1])
    /\ mig' = [pc |-> "loop",
               versions |-> versions,
               paths |-> paths,
               from_version |-> from_version,
               compat_version |-> get_sql_alchemy_compatibility_version(versions, from_version),
               from_compat_version |->
                   get_sql_alchemy_compatibility_version(versions, from_version),
               applied |-> <<>>,
               validated |-> FALSE,
               failed |-> "none",
               error |-> "none"]
    /\ UNCHANGED <<score, rails>>
    /\ UNCHANGED nonAuxVars

\* One turn of the while loop: the step registered for from_compat_version
\* is run; it completes (ok) or raises.
MigrateStep(ok) ==
    /\ mig.pc = "loop"
    /\ mig.from_compat_version \in DOMAIN mig.paths
    /\ mig' = IF ok
              THEN [mig EXCEPT
                        !.applied = Append(@, [from |-> mig.from_compat_version,
                                               to |-> mig.paths[mig.from_compat_version].to]),
                        !.from_compat_version = mig.paths[mig.from_compat_version].to]
              ELSE step_failed(mig)
    /\ UNCHANGED <<score, rails>>
    /\ UNCHANGED nonAuxVars

\* The while loop ends: from_compat_version is no key of the table.
MigrateDone ==
    /\ mig.pc = "loop"
    /\ mig.from_compat_version \notin DOMAIN mig.paths
    /\ mig' = [mig EXCEPT !.pc = "validate"]
    /\ UNCHANGED <<score, rails>>
    /\ UNCHANGED nonAuxVars

\* _sql_alchemy_serialization_asserts(db) completes (ok) or raises, and the
\* except clause raises VersionException.
SerializationAsserts(ok) ==
    /\ mig.pc = "validate"
    /\ mig' = IF ok
              THEN [mig EXCEPT !.pc = "returned", !.validated = TRUE]
              ELSE [mig EXCEPT !.pc = "raised", !.validated = TRUE,
                               !.error = "VersionException", !.failed = "validation"]
    /\ UNCHANGED <<score, rails>>
    /\ UNCHANGED nonAuxVars

\* ------------------------------------------------- TruRails attribute lookup

\* Names that TruRails defines: the lookup finds them before __getattr__.
RecorderAttributes == {"app", "main_input", "main_output", "select_context"}

\* Names a wrapped app can have.
AppAttributes == {"generate", "generate_async", "kb", "llm", "config"}

\* The names looked up: of the recorder, of apps, and of neither.
LookupNames == RecorderAttributes \cup AppAttributes \cup {"undefined"}

\* safe_hasattr(self.app, name), the app given by the set of its attributes.
safe_hasattr(app, name) == name \in app

\* TruRails.__getattr__(name): how the call ends, and with what.
TruRails_getattr(app, name) ==
    IF safe_hasattr(app, name)
    THEN [outcome |-> "returned", value |-> "RuntimeError"]
    ELSE [outcome |-> "raised", value |-> "RuntimeError"]

\* getattr(recorder, name): __getattr__ is called when the name is not
\* found on the recorder.
GetAttr(app, name) ==
    /\ rails' = [op |-> "getattr", app |-> app, name |-> name]
                @@ (IF name \in RecorderAttributes
                    THEN [outcome |-> "returned", value |-> "attribute"]
                    ELSE TruRails_getattr(app, name))
    /\ UNCHANGED <<score, mig>>
    /\ UNCHANGED nonAuxVars

vars == <<spanVars, taxVars, fbVars, auxVars>>

\* No call made on the provider, the migration or the recorder.
AuxInit0 ==
    /\ score = [op |-> "none"]
    /\ mig = [pc |-> "idle"]
    /\ rails = [op |-> "none"]

Init == SpanInit0 /\ TaxInit0 /\ FbInit0 /\ AuxInit0

\* The operations on one span.
SpanOps(s) ==
    \/ \E c \in Classes : SpanNew(s, c)
    \/ \E n \in PropNames(cls[s]), value \in Values : AttrSet(s, n, value)
    \/ \E n \in PropNames(cls[s]) : AttrDelete(s, n)
    \/ \E value \in ParentValues : SetParent(s, value)
    \/ \E t \in Timestamps : SetEndTimestamp(s, t)

\* The span under test is the first span of the trace; the other spans
\* of the trace take part through their contexts.
Next == SpanOps(1)

\* Every operation on one span, in any order.
Spec == Init /\ [][Next]_vars

BedrockNext ==
    \E response \in Responses :
        \/ Sentiment(response)
        \/ Relevance(response)
        \/ QsRelevance(response)
        \/ SummarizedGroundedness(response)
        \/ ModelAgreement(response)
        \/ LangchainEvaluate(response)

\* Calls of the feedback functions of the Bedrock provider.
SpecBedrock == Init /\ [][BedrockNext]_vars

\* The classes of the spans whose tags are read and changed side by side.
IsolationClasses == {"SpanUntyped", "SpanRoot"}

\* The operations on the tags of the span s.
TagOps(s) ==
    \/ \E c \in IsolationClasses : SpanNew(s, c)
    \/ AttrRead(s, "tags")
    \/ \E x \in Elements : ListAppend(s, "tags", x)
    \/ \E value \in Values : AttrSet(s, "tags", value)

IsolationNext == \E s \in SpanIds : TagOps(s)

\* Several spans whose tags are read, changed in place and assigned.
SpecIsolation == Init /\ [][IsolationNext]_vars

MigrationNext ==
    \/ \E versions \in VersionLists, paths \in UpgradePaths, n \in 1..MaxVersion :
            DataMigrate(versions, paths, PyStr(VersionStr(n)))
    \/ \E ok \in BOOLEAN : MigrateStep(ok)
    \/ MigrateDone
    \/ \E ok \in BOOLEAN : SerializationAsserts(ok)

\* One call of data_migrate, for each list of known versions, upgrade-path
\* table and database version.
SpecMigration == Init /\ [][MigrationNext]_vars

RailsNext == \E app \in SUBSET AppAttributes, name \in LookupNames : GetAttr(app, name)

\* Attribute lookups on a TruRails recorder that wraps an app.
SpecRails == Init /\ [][RailsNext]_vars

\* The operations on the timestamps of one span.
TimeOps(s) ==
    \/ SpanNew(s, "SpanUntyped")
    \/ \E t \in Ticks : SetStartTimestamp(s, t)
    \/ \E t \in Ticks : SetEndTimestamp(s, t)
    \/ \E value \in Datetimes : SetStartDatetime(s, value)
    \/ \E value \in Datetimes : SetEndDatetime(s, value)
    \/ ReassignStartDatetime(s)
    \/ ReassignEndDatetime(s)

TimeNext == TimeOps(1)

\* Assignments of the timestamps of a span and of their datetime views.
SpecTime == Init /\ [][TimeNext]_vars

\* The classes whose attribute store is exercised: the base class, a class
\* that adds no field, and classes whose fields cover the declared types
\* (str, int, lists of str, int and float, Optional, dict, JSON, Any,
\* SpanType).
StoreClasses == { "Span", "SpanUntyped", "SpanMethodCall", "SpanReranker", "SpanEmbedding" }

\* The operations on the attribute store of one span, through its typed
\* fields.
StoreOps(s) ==
    \/ \E c \in StoreClasses, attrs0 \in InitialAttributes : SpanNewWith(s, c, attrs0)
    \/ \E n \in PropNames(cls[s]), value \in Values : AttrSet(s, n, value)
    \/ \E n \in PropNames(cls[s]) : AttrRead(s, n)
    \/ \E n \in PropNames(cls[s]) : AttrDelete(s, n)
    \/ \E n \in PropNames(cls[s]), x \in Elements : ListAppend(s, n, x)

StoreNext == StoreOps(1)

\* Reads, writes and deletions of typed fields, in any order.
SpecStore == Init /\ [][StoreNext]_vars

TaxNext ==
    \/ \E tag \in Tags : ToClass(tag)
    \/ \E c \in Classes : ReverseLookup(c)

\* Lookups in the SpanType enumeration.
SpecTaxonomy == Init /\ [][TaxNext]_vars

FbNext ==
    \/ \E name \in FunctionNames, fn \in FeedbackFns : RegisterFeedbackFunctions(name, fn)
    \/ \E events \in EventInputs, context \in ContextInputs, function \in FunctionNames,
          selectors \in SelectorInputs, verbose \in BOOLEAN :
            Feedback(events, context, function, selectors, verbose)
    \/ \E lens \in LensInputs, events \in EventInputs, context \in ContextInputs :
            GetSoleItem(lens, events, context)

\* Calls of the feedback action and of get_sole_item.
SpecFeedback == Init /\ [][FbNext]_vars

LensInit == SpanInit0 /\ TaxInit0 /\ LensInit0 /\ AuxInit0

LensNext ==
    \/ LensEval(fb.lens, fb.obj)
    \/ OfString(fb.lens)

\* Evaluations and parsings of Lenses, one call on each Lens and value.
SpecLens == LensInit /\ [][LensNext]_vars

\* ------------------------------------------------------------------ claims

\* The declared type of the field the last operation was about.
LastTyp == PropOf(cls[lastOp.span], lastOp.name).typ

\* C1: a span that starts with no links holds, after any sequence of parent
\* assignments, at most one link whose relationship is "parent"; the parent
\* getter returns the context of the most recent assignment, and no link to
\* an earlier parent is left.
C1_ParentUnique ==
    \A s \in SpanIds :
        /\ Cardinality(ParentLinks(links[s])) <= 1
        /\ assigned[s] = <<>> => parent_context(s) = None
        /\ assigned[s] # <<>> =>
            /\ parent_context(s) = assigned[s][Len(assigned[s])]
            /\ LinkContexts(links[s]) = { assigned[s][Len(assigned[s])] }

\* C1 witness: parent X then parent Y # X were assigned, and the getter
\* returns Y.
C1_Witness ==
    /\ Len(assigned[1]) >= 2
    /\ assigned[1][1] # assigned[1][2]
    /\ parent_context(1) = assigned[1][2]

\* C2: after a write of a value that conforms to the declared type of the
\* field, whatever was written or deleted before, the write has succeeded and
\* reading the field returns the value written.
C2_RoundTrip ==
    (lastOp.op = "set" /\ Conforms(LastTyp, lastOp.value)) =>
        (lastOp.outcome = "ok" /\ AttrGet(lastOp.span, lastOp.name) = lastOp.value)

\* C2 witness: a conforming write of an int field of a retriever span, as
\* the third operation on the span, has been read back.
C2_Witness ==
    /\ lastOp.op = "set"
    /\ lastOp.name = "num_contexts"
    /\ Conforms(LastTyp, lastOp.value)
    /\ nops >= 3
    /\ AttrGet(lastOp.span, lastOp.name) = lastOp.value

\* C3: a write of a value that does not conform to the declared type of the
\* field fails with the validation error and leaves the attribute store as it
\* was.
C3_NonConformingWriteFails ==
    [][ (lastOp'.op = "set"
            /\ ~Conforms(PropOf(cls'[lastOp'.span], lastOp'.name).typ, lastOp'.value))
        => (lastOp'.outcome = "ValidationError" /\ attributes' = attributes) ]_vars

\* A span_type value identifies a class: it is the name of the class or the
\* enumeration member whose value is the name of the class.
Identifies(x, c) ==
    \/ x.k = "str" /\ x.v = c
    \/ x.k = "SpanType" /\ SpanTypeValue(x.v) = c

\* C4: in every state of a span in which span_type is stored (after
\* construction and after any writes), the span_type read from the span
\* identifies the class of the span.
C4_SpanTypeMatchesClass ==
    \A s \in SpanIds :
        (Constructed(s) /\ vendor_attr("span_type") \in DOMAIN attributes[s]) =>
            Identifies(AttrGet(s, "span_type"), cls[s])

\* C5: to_class on a member of SpanType succeeds and returns the span class
\* whose name is the value of the member.
C5_ToClassTotal ==
    (\E m \in SpanTypeMembers : resolved.tag = [name |-> m, value |-> SpanTypeValue(m)]) =>
        /\ resolved.outcome = "ok"
        /\ resolved.result.k = "class"
        /\ ClassName(resolved.result) = resolved.tag.value
        /\ ClassName(resolved.result) \in Classes

\* C5 witness: RETRIEVER has been resolved to the class SpanRetriever.
C5_Witness ==
    /\ resolved.tag = [name |-> "RETRIEVER", value |-> "SpanRetriever"]
    /\ resolved.outcome = "ok"
    /\ resolved.result = ClassObj("SpanRetriever")

\* The eleven span variants of the taxonomy.
SpanVariants ==
    { "SpanUntyped", "SpanRoot", "SpanRetriever", "SpanReranker", "SpanLLM",
      "SpanMemory", "SpanEmbedding", "SpanTool", "SpanAgent", "SpanTask",
      "SpanOther" }

\* C6 as stated: every instantiable class deriving from Span, including
\* Span, TransSpanRecord, SpanMethodCall and TransSpanRecordAppCall, is the
\* to_class of exactly one member of SpanType.
C6_EveryClassHasOneMember ==
    reverse.class \in Classes => Cardinality(reverse.members) = 1

\* C6 amended: each of the eleven span variant classes is the to_class of
\* exactly one member of SpanType, and the four other classes deriving from
\* Span are the to_class of no member.
C6_EveryVariantHasOneMember ==
    /\ reverse.class \in SpanVariants => Cardinality(reverse.members) = 1
    /\ reverse.class \in Classes \ SpanVariants => reverse.members = {}

\* C6 witness: the members mapping to SpanAgent were looked up and AGENT is
\* the only one.
C6_Witness == reverse.class = "SpanAgent" /\ reverse.members = { "AGENT" }

LastUnbound ==
    Unbound(ParsedSelectors(fb.selectors.v), SourceData(fb.events, fb.context, None, None))

\* C8: when a call of the feedback action has found its function and its
\* selectors, and one of the selectors does not resolve to exactly one value,
\* the caller gets the selection error, not a result, and the scoring
\* function has not been invoked.
C8_BindingFailureSurfaced ==
    (fb.op = "feedback" /\ fb.outcome # "ValueError" /\ LastUnbound # <<>>) =>
        (fb.outcome = "AmbiguousOrMissingSelection" /\ ~fb.invoked)

\* C9: get_sole_item returns the value when the result set of the Lens has
\* exactly one element, and fails with the selection error carrying the
\* number of results when it has none or several.
C9_SoleItem ==
    fb.op = "get_sole_item" =>
        LET all == LensGet(fb.lens, fb.obj)
        IN  /\ Len(all) = 1 => (fb.outcome = "ok" /\ fb.value = all[1])
            /\ Len(all) # 1 =>
                (fb.outcome = "AmbiguousOrMissingSelection" /\ fb.count = Len(all))

\* C9 witness: get_sole_item has failed on a result set of two elements.
C9_Witness ==
    /\ fb.op = "get_sole_item"
    /\ Len(LensGet(fb.lens, fb.obj)) = 2
    /\ fb.outcome = "AmbiguousOrMissingSelection"
    /\ fb.count = 2

\* C10: once a span is sealed (end_timestamp set), no operation changes its
\* attributes or its links.
C10_SealedImmutable ==
    [][ \A s \in SpanIds :
            Sealed(s) => (attributes'[s] = attributes[s] /\ links'[s] = links[s]) ]_vars

\* Following parent links from span s reaches a span without a parent in at
\* most k steps.
RECURSIVE ReachesRoot(_, _)
ReachesRoot(s, k) ==
    \/ parent_span_id(s) = None
    \/ k > 0 /\ parent_span_id(s).v \in SpanIds /\ ReachesRoot(parent_span_id(s).v, k - 1)

\* C11: after any sequence of parent assignments the parent links contain no
\* cycle: from every span, following parent links reaches a span without a
\* parent in at most as many steps as there are spans (in particular no span
\* is its own parent).
C11_NoParentCycle == \A s \in SpanIds : ReachesRoot(s, NumSpans)

\* C12: every step that changes the value stored under the vendor key of a
\* typed field of the span leaves there a value that passes the validation of
\* the field's declared type.
C12_WritesValidated ==
    [][ \A s \in SpanIds : \A n \in PropNames(cls'[s]) :
            (/\ vendor_attr(n) \in DOMAIN attributes'[s]
             /\ (vendor_attr(n) \in DOMAIN attributes[s] =>
                    attributes'[s][vendor_attr(n)] # attributes[s][vendor_attr(n)]))
            => validate_python(PropOf(cls'[s], n).typ, attributes'[s][vendor_attr(n)]) ]_vars

\* C16: parent_span_id is the span_id of the context of the link whose
\* relationship is "parent", and is None exactly when the span has no such
\* link.
C16_ParentSpanId ==
    \A s \in SpanIds :
        /\ parent_span_id(s) = None <=> ParentLinks(links[s]) = {}
        /\ \A i \in ParentLinks(links[s]) : parent_span_id(s) = PyInt(links[s][i].ctx.v)

\* C16 witness: the first span has the second span as its parent and
\* parent_span_id is the id of the second span.
C16_Witness ==
    /\ ParentLinks(links[1]) # {}
    /\ parent_context(1) = SpanContext(2)
    /\ parent_span_id(1) = PyInt(2)

\* C13: the get, set and delete of a typed field named n touch only the key
\* made of the vendor prefix and n: a successful set leaves exactly that key
\* changed, a successful delete removes exactly that key, a get returns what
\* is stored under that key (not under the bare name) and changes nothing;
\* every other key, a bare key n and the keys of other vendors included,
\* keeps its value.
C13_VendorKeyOnly ==
    [][ LET o == lastOp'
            s == lastOp'.span
            key == vendor_attr(lastOp'.name)
        IN  /\ (o.op = "set" /\ o.outcome = "ok") =>
                    /\ DOMAIN attributes'[s] = DOMAIN attributes[s] \cup {key}
                    /\ attributes'[s][key] = o.value
                    /\ \A x \in DOMAIN attributes[s] \ {key} :
                            attributes'[s][x] = attributes[s][x]
            /\ (o.op = "delete" /\ o.outcome = "ok") =>
                    /\ DOMAIN attributes'[s] = DOMAIN attributes[s] \ {key}
                    /\ \A x \in DOMAIN attributes'[s] : attributes'[s][x] = attributes[s][x]
            /\ o.op = "get" =>
                    /\ attributes' = attributes
                    /\ key \in DOMAIN attributes[s] => o.value = attributes[s][key]
            /\ o.op \in {"set", "delete", "get"} =>
                    \A r \in SpanIds \ {s} : attributes'[r] = attributes[r]
      ]_vars

\* C13 witness: a span built with a bare key "tags" and a key of another
\* vendor has had its field tags written: the value is under the vendor key
\* and the two other keys hold what they held.
C13_Witness ==
    /\ lastOp.op = "set"
    /\ lastOp.name = "tags"
    /\ lastOp.outcome = "ok"
    /\ {"tags", "other@tags"} \subseteq DOMAIN attributes[1]
    /\ attributes[1]["tags"] = PyStr("bare")
    /\ attributes[1]["other@tags"] = PyInt(5)
    /\ attributes[1][vendor_attr("tags")] = lastOp.value

\* C14: a read of a typed field whose key is absent from the attribute store
\* returns the declared default of the field (default, or what
\* default_factory returns, or None), and the read adds no key to the store.
C14_UnsetReadsDefault ==
    [][ lastOp'.op = "get" =>
            /\ attributes' = attributes
            /\ vendor_attr(lastOp'.name) \notin DOMAIN attributes[lastOp'.span] =>
                    lastOp'.value = PropOf(cls[lastOp'.span], lastOp'.name).default
      ]_vars

C17_EmptyLens ==
    (fb.op = "get" /\ fb.lens = <<>>) => fb.result = <<fb.obj>>

\* C17 witness: the empty Lens was evaluated on a mapping and yielded it.
C17_Witness ==
    /\ fb.op = "get"
    /\ fb.lens = <<>>
    /\ fb.obj.k = "dict"
    /\ fb.result = <<fb.obj>>

\* A step applies to a value: an attribute step to a mapping that has the
\* key, an index step to a sequence that has the position, a slice step to a
\* sequence, the wildcard to a sequence or a mapping.
Applies(step, x) ==
    CASE step.k = "attribute" -> x.k = "dict" /\ \E i \in DOMAIN x.v : x.v[i].key = step.v
      [] step.k = "index" -> x.k = "list" /\ 0 - Len(x.v) <= step.v /\ step.v < Len(x.v)
      [] step.k = "slice" -> x.k = "list"
      [] step.k = "wildcard" -> x.k \in {"list", "dict"}

\* C18: the evaluation of a Lens never fails for data that is missing or of
\* the wrong kind: the values its last step does not apply to (a mapping
\* without the key, a sequence under an attribute step, a position out of
\* range, a scalar under the wildcard) contribute nothing, and the result set
\* is the one of the other values.
C18_MissingTolerated ==
    (fb.op = "get" /\ fb.lens # <<>>) =>
        LET n == Len(fb.lens)
            prev == LensGet(SubSeq(fb.lens, 1, n - 1), fb.obj)
            applicable == SelectSeq(prev, LAMBDA x : Applies(fb.lens[n], x))
        IN  /\ fb.outcome = "ok"
            /\ fb.result = PathGet(<<fb.lens[n]>>, applicable)
            /\ applicable = <<>> => fb.result = <<>>

\* C18 witness: the attribute step "a" after the wildcard, on a sequence of
\* two mappings with the key, one without, a sequence and a scalar, yielded
\* the two values under the key.
C18_Witness ==
    /\ fb.op = "get"
    /\ fb.lens = <<Wildcard, Attribute("a")>>
    /\ fb.obj.k = "list"
    /\ Len(fb.obj.v) = 5
    /\ fb.result = <<PyInt(1), PyInt(4)>>

\* The concatenation of a sequence of sequences, from the first to the last.
RECURSIVE Flatten(_)
Flatten(xss) == IF xss = <<>> THEN <<>> ELSE Head(xss) \o Flatten(Tail(xss))

\* C19: the last step of a Lens is applied to every value matched by the
\* steps before it, and the results come in the order of those values, the
\* results of one value in the order of its elements: the wildcard then
\* index(0) on [[1,2],[3,4]] yields [1,3], and slice(1,None,None) on
\* [10,20,30] yields [20,30].
C19_DepthFirstOrder ==
    fb.op = "get" =>
        /\ fb.lens # <<>> =>
            LET n == Len(fb.lens)
                prev == LensGet(SubSeq(fb.lens, 1, n - 1), fb.obj)
            IN  fb.result = Flatten([i \in DOMAIN prev |-> LensGet(<<fb.lens[n]>>, prev[i])])
        /\ (fb.lens = <<Wildcard>> /\ fb.obj.k = "list") => fb.result = fb.obj.v
        /\ (/\ fb.lens = <<Wildcard, Index(0)>>
            /\ fb.obj = PyList(<<PyList(<<PyInt(1), PyInt(2)>>), PyList(<<PyInt(3), PyInt(4)>>)>>))
                => fb.result = <<PyInt(1), PyInt(3)>>
        /\ (/\ fb.lens = <<Slice(PyInt(1), None, None)>>
            /\ fb.obj = PyList(<<PyInt(10), PyInt(20), PyInt(30)>>))
                => fb.result = <<PyInt(20), PyInt(30)>>

\* C19 witness: the wildcard then index(0) was evaluated on [[1,2],[3,4]].
C19_Witness ==
    /\ fb.op = "get"
    /\ fb.lens = <<Wildcard, Index(0)>>
    /\ fb.obj = PyList(<<PyList(<<PyInt(1), PyInt(2)>>), PyList(<<PyInt(3), PyInt(4)>>)>>)
    /\ fb.result = <<PyInt(1), PyInt(3)>>

\* C20: the textual form of a Lens parses to the Lens built step by step, and
\* a selector given to the feedback action as that text gives the caller what
\* the selector given as the Lens object gives, on every source;
\* "action.context.last_user_message" parses to
\* RailsActionSelect.LastUserMessage.
C20_ParseEqualsBuild ==
    fb.op = "of_string" =>
        /\ fb.parsed = fb.lens
        /\ fb.text = <<Name("action"), Dot, Name("context"), Dot, Name("last_user_message")>>
                => fb.parsed = LastUserMessage
        /\ \A events \in EventInputs, context \in ContextInputs, verbose \in BOOLEAN :
            LET registry == DictSet(EmptyDict, "language_match",
                                    FeedbackFn("language_match", "match"))
            IN  feedback(registry, events, context, "language_match",
                         PyDict(<<Sel("text1", Text(fb.text)), Sel("text2", LensObj(BotMessage))>>),
                         verbose)
                = feedback(registry, events, context, "language_match",
                           PyDict(<<Sel("text1", LensObj(fb.lens)),
                                    Sel("text2", LensObj(BotMessage))>>),
                           verbose)

\* C20 witness: the text "action.context.last_user_message" was parsed to
\* RailsActionSelect.LastUserMessage.
C20_Witness ==
    /\ fb.op = "of_string"
    /\ fb.lens = LastUserMessage
    /\ fb.text = <<Name("action"), Dot, Name("context"), Dot, Name("last_user_message")>>
    /\ fb.parsed = LastUserMessage

\* C21: a retriever span never holds retrieved_contexts and retrieved_scores
\* (or retrieved_embeddings) that are lists of different lengths: the write
\* that would leave them so is rejected.
C21_ParallelLists ==
    \A s \in SpanIds :
        cls[s] = "SpanRetriever" =>
            \A n \in {"retrieved_scores", "retrieved_embeddings"} :
                (/\ vendor_attr("retrieved_contexts") \in DOMAIN attributes[s]
                 /\ vendor_attr(n) \in DOMAIN attributes[s]
                 /\ AttrGet(s, "retrieved_contexts").k = "list"
                 /\ AttrGet(s, n).k = "list")
                => Len(AttrGet(s, "retrieved_contexts").v) = Len(AttrGet(s, n).v)

\* C24: the assignment of None as the parent of a span changes nothing: the
\* links of the span, the parent the getter returns and parent_span_id are
\* what they were.
C24_NoneParentNoOp ==
    [][ \A s \in SpanIds :
            (lastOp'.op = "set_parent" /\ lastOp'.span = s /\ lastOp'.value = None) =>
                /\ links' = links
                /\ parent_context(s)' = parent_context(s)
                /\ parent_span_id(s)' = parent_span_id(s)
      ]_vars

\* C24 witness: None was assigned as the parent of a span that had the
\* second span as its parent, and the getter still returns the second span.
C24_Witness ==
    /\ lastOp.op = "set_parent"
    /\ lastOp.value = None
    /\ assigned[1] = <<SpanContext(2)>>
    /\ parent_context(1) = SpanContext(2)
    /\ parent_span_id(1) = PyInt(2)

C23_SentimentUnitInterval ==
    (score.op = "sentiment" /\ score.rating \in Ratings) =>
        /\ 0 <= score.value.num
        /\ score.value.num <= score.value.den

\* C25: defaults are isolated between spans: an operation on a span a, the
\* change in place of the list read from a.tags included, does not change
\* what the read of b.tags returns for another span b whose tags were never
\* written.
C25_DefaultsIsolated ==
    [][ \A a \in SpanIds : \A b \in SpanIds \ {a} :
            (/\ lastOp'.span = a
             /\ Constructed(b)
             /\ vendor_attr("tags") \notin DOMAIN attributes[b]
             /\ AttrGet(b, "tags") = PyList(<<>>))
            => AttrGet(b, "tags")' = PyList(<<>>) ]_vars

\* C26: within one span class the distinct typed fields, the inherited ones
\* included, have distinct vendor keys (looked at for every class whenever a
\* span is constructed), and a write or a deletion of one typed field leaves
\* the value read from every other typed field of the same span as it was.
C26_FieldsIndependent ==
    [][ /\ lastOp'.op = "init" =>
                \A c \in Classes : \A n \in PropNames(c) : \A m \in PropNames(c) \ {n} :
                    vendor_attr(n) # vendor_attr(m)
        /\ lastOp'.op \in {"set", "delete"} =>
                \A s \in SpanIds : lastOp'.span = s =>
                    \A m \in PropNames(cls[s]) \ {lastOp'.name} :
                        AttrGet(s, m)' = AttrGet(s, m) ]_vars

\* C26 witness: a reranker span whose query_text was written has had top_n
\* written after it, and query_text reads what was written to it.
C26_Witness ==
    /\ cls[1] = "SpanReranker"
    /\ lastOp.op = "set"
    /\ lastOp.name = "top_n"
    /\ lastOp.outcome = "ok"
    /\ AttrGet(1, "top_n") = PyInt(5)
    /\ vendor_attr("query_text") \in DOMAIN attributes[1]
    /\ AttrGet(1, "query_text") = PyStr("a")

\* C27: the outcome of the feedback action does not depend on the verbose
\* flag: the call with the other value of verbose, on the same registry,
\* function, selectors and source data, gives the same ActionResult
\* (return_value and context_updates) or fails with the same error.
C27_VerboseIrrelevant ==
    [][ (fb'.op = "feedback" /\ UNCHANGED registered_feedback_functions) =>
            LET other == feedback(registered_feedback_functions, fb'.events, fb'.context,
                                  fb'.function, fb'.selectors, ~fb'.verbose)
            IN  /\ other.outcome = fb'.outcome
                /\ other.return_value = fb'.return_value
                /\ other.context_updates = fb'.context_updates ]_vars

\* What a call of data_migrate has done so far is in order: the steps applied
\* form the chain of the table from the compatibility version; the
\* validation is reached only with no step left to apply and none failed; a
\* failed step ends the call with VersionException before any validation; a
\* failed validation ends it with VersionException; a call that returns has
\* validated.
MigrationInOrder ==
    mig.pc # "idle" =>
        /\ \A i \in 1..Len(mig.applied) :
                /\ mig.applied[i].from =
                        (IF i = 1 THEN mig.compat_version ELSE mig.applied[i - 1].to)
                /\ mig.applied[i].from \in DOMAIN mig.paths
                /\ mig.applied[i].to = mig.paths[mig.applied[i].from].to
        /\ mig.from_compat_version =
                (IF mig.applied = <<>> THEN mig.compat_version
                 ELSE mig.applied[Len(mig.applied)].to)
        /\ (mig.pc \in {"validate", "returned"} \/ mig.validated) =>
                /\ mig.failed # "step"
                /\ mig.from_compat_version \notin DOMAIN mig.paths
        /\ mig.failed = "step" =>
                (mig.pc = "raised" /\ mig.error = "VersionException" /\ ~mig.validated)
        /\ mig.failed = "validation" =>
                (mig.pc = "raised" /\ mig.error = "VersionException")
        /\ mig.pc = "returned" =>
                (mig.validated /\ mig.failed = "none" /\ mig.error = "none")
        /\ mig.pc = "raised" => mig.failed # "none"

KeyVersion(k) == IF k.k = "int" THEN k.v ELSE py_int(k)

\* C29: for an ascending list of known versions and a database version at
\* least the smallest of them, the compatibility version is the greatest
\* known version that is at most the database version, and it is found by
\* the loop of data_migrate as a key of the table whenever the table has a
\* step registered for that version.
C29_CompatibilityVersion ==
    mig.pc # "idle" =>
        LET known == { py_int(mig.versions[i]) : i \in DOMAIN mig.versions }
            below == { n \in known : n <= py_int(mig.from_version) }
            greatest == CHOOSE n \in below : \A m \in below : m <= n
        IN  /\ KeyVersion(mig.compat_version) = greatest
            /\ (\E k \in DOMAIN mig.paths : KeyVersion(k) = greatest) =>
                    mig.compat_version \in DOMAIN mig.paths

\* C30: the lookup on a TruRails recorder of a name that TruRails does not
\* define fails with RuntimeError, whether the wrapped app has the name or
\* not; it never completes with a value.
C30_UndefinedLookupFails ==
    (rails.op = "getattr" /\ rails.name \notin RecorderAttributes) =>
        (rails.outcome = "raised" /\ rails.value = "RuntimeError")

====
